---- MODULE Spec2Model ----
(***************************************************************************)
(* ChatServer: the message store and the HTTP handlers of the variants of  *)
(* server.js kept in this repository.  One behaviour of the model is one   *)
(* run of one variant: Init picks the variant, and each handler of that    *)
(* variant is one action.                                                  *)
(*                                                                         *)
(*   mem   src/server.js 1-271       in-memory array, Date.now() ids       *)
(*   crdb  src/server.js 273-530     SQL, ORDER BY timestamp ASC LIMIT     *)
(*   p000  src/unnamed/part_000      SQL, uuidv4 ids, TIMESTAMP column     *)
(*   p001  src/unnamed/part_001      in-memory array, uuid ids, limit      *)
(*   p003  src/unnamed/part_003      Supabase table, Date.now() ids        *)
(*   p005  src/unnamed/part_005      SQL, to_timestamp / EXTRACT(EPOCH)    *)
(*   p007  src/unnamed/part_007      SQL, image and device columns         *)
(*   p008  src/unnamed/part_008      SQL, to_timestamp($3 / 1000)          *)
(*                                                                         *)
(* JavaScript values are records [k, l, c, t, n]: k is the type; a string  *)
(* is l leading blanks, c characters from its first to its last non-blank  *)
(* one, t trailing blanks, and n is the instant Date.parse gives for it    *)
(* (Invalid when it is no date); a number has its value in n.              *)
(***************************************************************************)
EXTENDS Integers, Sequences, FiniteSets, TLC

VARIABLES variant, messages, now, uuidCtr, res, intake

vars == <<variant, messages, now, uuidCtr, res, intake>>

(***************************************************************************)
(* Bounds of the model.                                                    *)
(***************************************************************************)
MaxStore == 2
MaxTicks == 1
MaxUuid == 3
MaxIntake == 1

Variants == {"mem", "crdb", "p000", "p001", "p003", "p005", "p007", "p008"}

(***************************************************************************)
(* JavaScript values.                                                      *)
(***************************************************************************)
Invalid == 0 - 1

Undefined == [k |-> "undefined", l |-> 0, c |-> 0, t |-> 0, n |-> 0]
Null == [k |-> "null", l |-> 0, c |-> 0, t |-> 0, n |-> 0]
NaN == [k |-> "nan", l |-> 0, c |-> 0, t |-> 0, n |-> 0]
Num(x) == [k |-> "number", l |-> 0, c |-> 0, t |-> 0, n |-> x]
Str(lead, core, trail) == [k |-> "string", l |-> lead, c |-> core, t |-> trail, n |-> Invalid]
IsoStr(ms) == [k |-> "string", l |-> 0, c |-> 24, t |-> 0, n |-> ms]

Min(a, b) == IF a < b THEN a ELSE b
Max(a, b) == IF a > b THEN a ELSE b

Length(v) == v.l + v.c + v.t

\* ToBoolean, as used by !x, x || y and x ? a : b.
Truthy(v) ==
    CASE v.k = "undefined" -> FALSE
      [] v.k = "null" -> FALSE
      [] v.k = "nan" -> FALSE
      [] v.k = "number" -> v.n # 0
      [] v.k = "string" -> Length(v) > 0

\* a || b
Or(a, b) == IF Truthy(a) THEN a ELSE b

\* String.prototype.trim
Trim(v) == [v EXCEPT !.l = 0, !.t = 0]

\* String.prototype.slice(0, n) and substring(0, n): the first n characters.
Slice(v, n) ==
    LET lead == Min(v.l, n)
        core == Min(v.c, n - lead)
        trail == Min(v.t, n - lead - core)
    IN  IF core = 0
        THEN [v EXCEPT !.l = lead + trail, !.c = 0, !.t = 0]
        ELSE [v EXCEPT !.l = lead, !.c = core, !.t = trail,
                       !.n = IF core = v.c THEN v.n ELSE Invalid]

\* a + 'literal' for a literal of len characters with no blank at its end.
Concat(v, len) == [v EXCEPT !.c = v.c + v.t + len, !.t = 0, !.n = Invalid]

\* x?.trim(): undefined for undefined and null, else x.trim().
OptTrim(v) == IF v.k \in {"undefined", "null"} THEN Undefined ELSE Trim(v)

\* Number(x). A query or body string that is the decimal text of a number is
\* written Num(n) in this model, so a "string" here is never numeric text.
NumberOf(v) ==
    CASE v.k = "undefined" -> NaN
      [] v.k = "null" -> Num(0)
      [] v.k = "nan" -> NaN
      [] v.k = "number" -> v
      [] v.k = "string" -> IF v.c = 0 THEN Num(0) ELSE NaN

\* parseInt(x, 10)
ParseInt(v) == IF v.k = "number" THEN v ELSE NaN

\* new Date(x).getTime(), Invalid for an Invalid Date.
NewDate(v) ==
    CASE v.k = "undefined" -> Invalid
      [] v.k = "null" -> 0
      [] v.k = "nan" -> Invalid
      [] v.k = "number" -> v.n
      [] v.k = "string" -> v.n

(***************************************************************************)
(* Shared-video links: the tokens the URL checks of /download-youtube look *)
(* at.  id says whether an 11-character video id follows the host.         *)
(***************************************************************************)
NoUrl ==
    [scheme |-> "absent", www |-> FALSE, host |-> "", slash |-> FALSE, id |-> FALSE]
\* https://www.youtube.com/watch?v=dQw4w9WgXcQ
YoutubeLink ==
    [scheme |-> "https://", www |-> TRUE, host |-> "youtube.com", slash |-> TRUE,
     id |-> TRUE]
\* https://www.youtube.com/
YoutubeHome == [YoutubeLink EXCEPT !.id = FALSE]
\* https://example.com/watch?v=dQw4w9WgXcQ
OtherLink ==
    [scheme |-> "https://", www |-> FALSE, host |-> "example.com", slash |-> TRUE,
     id |-> TRUE]

\* /^(https?:\/\/)?(www\.)?(youtube\.com|youtu\.be)\//.test(youtubeUrl)
youtubeRegex(u) ==
    /\ u.scheme \in {"", "http://", "https://"}
    /\ u.host \in {"youtube.com", "youtu.be"}
    /\ u.slash

(***************************************************************************)
(* Messages and identifiers.                                               *)
(***************************************************************************)
NoId == <<"none", 0>>
\* Date.now().toString()
MsId(ms) == <<"ms", ms>>
\* uuidv4(), uuid(), gen_random_uuid(): the identifier of the k-th message
\* stored; an identifier drawn for a message that is not stored is dropped.
Uuid(k) == <<"uuid", k>>

NoMessage ==
    [id |-> NoId, username |-> Undefined, text |-> Undefined, image |-> Undefined,
     videoUrl |-> Undefined, device |-> Undefined, timestamp |-> Undefined,
     youtubeUrl |-> NoUrl, youtubeTitle |-> Undefined]


\* A message record with the fields of m set; the others are absent.
Msg(id, username, text, image, videoUrl, timestamp) ==
    [NoMessage EXCEPT !.id = id, !.username = username, !.text = text,
                      !.image = image, !.videoUrl = videoUrl, !.timestamp = timestamp]

(***************************************************************************)
(* Request bodies and query strings the clients send.                      *)
(***************************************************************************)
NoPayload ==
    [username |-> Undefined, text |-> Undefined, image |-> Undefined,
     videoUrl |-> Undefined, timestamp |-> Undefined, device |-> Undefined,
     youtubeUrl |-> NoUrl]

\* {username: "bob", text: "hi", timestamp: 1200}
BasePayload ==
    [NoPayload EXCEPT !.username = Str(0, 3, 0), !.text = Str(0, 2, 0),
                      !.timestamp = Num(1200)]

Payloads ==
    {BasePayload,
     \* the same, sent later: timestamp 2600
     [BasePayload EXCEPT !.timestamp = Num(2600)],
     \* {username: " bob ", text: " hi ", timestamp: 1200}
     [BasePayload EXCEPT !.username = Str(1, 3, 1), !.text = Str(1, 2, 1)],
     \* {username: "  ", text: "hi", timestamp: 1200}
     [BasePayload EXCEPT !.username = Str(2, 0, 0)],
     \* a username of 256 and a text of 6000 characters
     [BasePayload EXCEPT !.username = Str(0, 256, 0), !.text = Str(0, 6000, 0)],
     \* {username: "bob", text: "hi"}
     [BasePayload EXCEPT !.timestamp = Undefined],
     \* timestamp: "1970-01-01T00:00:03.000Z"
     [BasePayload EXCEPT !.timestamp = IsoStr(3000)],
     \* timestamp: "never"
     [BasePayload EXCEPT !.timestamp = Str(0, 5, 0)],
     \* an inline image of 50000001 characters, sent from a named device
     [BasePayload EXCEPT !.text = Undefined, !.image = Str(0, 50000001, 0),
                         !.device = Str(0, 6, 0)],
     \* a video already uploaded
     [BasePayload EXCEPT !.text = Undefined, !.videoUrl = Str(0, 60, 0)],
     \* {}
     NoPayload,
     \* {text: "hi", timestamp: 1200}
     [BasePayload EXCEPT !.username = Undefined],
     \* {username: "bob", timestamp: 1200}
     [BasePayload EXCEPT !.text = Undefined],
     \* {username: "bob", youtubeUrl: "https://www.youtube.com/..."}
     [NoPayload EXCEPT !.username = Str(0, 3, 0), !.youtubeUrl = YoutubeLink]}

\* req.query.limit: absent, "abc", "0", "-1", "1", "1000"
Limits == {Undefined, Str(0, 3, 0), Num(0), Num(0 - 1), Num(1), Num(1000)}

\* {youtubeUrl: <u>, username: "bob", timestamp: 1200}
BaseIntake(u) ==
    [NoPayload EXCEPT !.youtubeUrl = u, !.username = Str(0, 3, 0),
                      !.timestamp = Num(1200)]

\* The bodies of POST /download-youtube.
IntakePayloads ==
    {BaseIntake(YoutubeLink),
     BaseIntake(YoutubeHome),
     BaseIntake(OtherLink),
     BaseIntake(NoUrl),
     \* no username
     [BaseIntake(YoutubeLink) EXCEPT !.username = Undefined],
     \* no timestamp
     [BaseIntake(YoutubeLink) EXCEPT !.timestamp = Undefined]}

(***************************************************************************)
(* The response to the request handled last: the operation, its body and   *)
(* query, the HTTP status, what failed, and the messages in the response.  *)
(***************************************************************************)
\* A response body that reports no count.
NoCount == 0 - 1

Resp(op, p, q, status, err, body) ==
    [op |-> op, req |-> p, query |-> q, status |-> status, err |-> err, body |-> body,
     count |-> NoCount]

\* The response of a bulk delete that reports how many rows it removed.
RespCount(status, err, n) ==
    [Resp("CLEAR", NoPayload, Undefined, status, err, <<>>) EXCEPT !.count = n]

NoResp == Resp("none", NoPayload, Undefined, 0, "none", <<>>)

Last(s) == s[Len(s)]

(***************************************************************************)
(* src/server.js, first variant: messages in memory.                       *)
(***************************************************************************)
\* The check of POST /messages with its || written as &&.
InvalidMemMutant(p) ==
    /\ ~Truthy(p.username)
    /\ (~Truthy(p.text) /\ ~Truthy(p.image) /\ ~Truthy(p.videoUrl))

\* if (!username || (!text && !image && !videoUrl))
InvalidMem(p) ==
    \/ ~Truthy(p.username)
    \/ (~Truthy(p.text) /\ ~Truthy(p.image) /\ ~Truthy(p.videoUrl))

MessageMem(p, ms) ==
    Msg(MsId(ms), p.username, Or(p.text, Null), Or(p.image, Null),
        Or(p.videoUrl, Null), p.timestamp)

GetMessagesMem ==
    /\ variant = "mem"
    /\ res' = Resp("GET", NoPayload, Undefined, 200, "none", messages)
    /\ UNCHANGED <<variant, messages, now, uuidCtr, intake>>

\* POST /messages made to wait until no request of /download-youtube is in
\* flight.
PostMemMutant(p) ==
    /\ variant = "mem"
    /\ intake = <<>>
    /\ IF InvalidMem(p)
       THEN /\ res' = Resp("POST", p, Undefined, 400, "validation", <<>>)
            /\ UNCHANGED messages
       ELSE /\ Len(messages) < MaxStore
            /\ messages' = Append(messages, MessageMem(p, now))
            /\ res' = Resp("POST", p, Undefined, 200, "none",
                           <<[NoMessage EXCEPT !.id = MsId(now)]>>)
    /\ UNCHANGED <<variant, now, uuidCtr, intake>>

\* POST /messages with the body p.
PostMem(p) ==
    /\ variant = "mem"
    /\ IF InvalidMem(p)
       THEN /\ res' = Resp("POST", p, Undefined, 400, "validation", <<>>)
            /\ UNCHANGED messages
       ELSE /\ Len(messages) < MaxStore
            /\ messages' = Append(messages, MessageMem(p, now))
            /\ res' = Resp("POST", p, Undefined, 200, "none",
                           <<[NoMessage EXCEPT !.id = MsId(now)]>>)
    /\ UNCHANGED <<variant, now, uuidCtr, intake>>

PostMessagesMem == \E p \in Payloads : PostMem(p)

\* DELETE /messages/clear that also forgets the requests of /download-youtube
\* in flight.
ClearMemMutant ==
    /\ variant = "mem"
    /\ messages' = <<>>
    /\ intake' = <<>>
    /\ res' = Resp("CLEAR", NoPayload, Undefined, 200, "none", <<>>)
    /\ UNCHANGED <<variant, now, uuidCtr>>

ClearMem ==
    /\ variant = "mem"
    /\ messages' = <<>>
    /\ res' = Resp("CLEAR", NoPayload, Undefined, 200, "none", <<>>)
    /\ UNCHANGED <<variant, now, uuidCtr, intake>>

\* The URL Cloudinary returns for an upload, and the length of the suffix
\* '?quality=auto:good&fetch_format=mp4' the handler appends to it.
SecureUrl == Str(0, 60, 0)
SuffixLen == 35

IntakeMessageMem(r, ms) ==
    [NoMessage EXCEPT !.id = MsId(ms), !.username = r.username,
                      !.videoUrl = Concat(SecureUrl, SuffixLen),
                      !.timestamp = r.timestamp, !.youtubeUrl = r.youtubeUrl]

RemoveAt(s, i) == [j \in 1..(Len(s) - 1) |-> IF j < i THEN s[j] ELSE s[j + 1]]

\* A request of /download-youtube that waits for a collaborator: the step it
\* waits for, its body, whether its client has closed the connection, and
\* whether a response has been written for it.
Pending(pc, p) == [pc |-> pc, req |-> p, gone |-> FALSE, answered |-> FALSE]

\* What the upload callback answers: res.json writes to the connection, and
\* the write is dropped when the client has closed it.
Answered(e) == IF e.gone THEN "disconnected" ELSE "none"

\* POST /download-youtube up to the start of yt-dlp: the checks of the body
\* and of the URL; a request that passes waits for the download.
DownloadYoutubeMem ==
    /\ variant = "mem"
    /\ \E p \in IntakePayloads :
         IF p.youtubeUrl = NoUrl
         THEN /\ res' = Resp("INTAKE", p, Undefined, 400, "validation", <<>>)
              /\ UNCHANGED intake
         ELSE IF ~Truthy(p.username) \/ ~Truthy(p.timestamp)
         THEN /\ res' = Resp("INTAKE", p, Undefined, 400, "validation", <<>>)
              /\ UNCHANGED intake
         ELSE IF ~youtubeRegex(p.youtubeUrl)
         THEN /\ res' = Resp("INTAKE", p, Undefined, 400, "validation", <<>>)
              /\ UNCHANGED intake
         ELSE /\ Len(intake) < MaxIntake
              /\ intake' = Append(intake, Pending("download", p))
              /\ res' = Resp("INTAKE", p, Undefined, 0, "pending", <<>>)
    /\ UNCHANGED <<variant, messages, now, uuidCtr>>

\* The callback of execFile('yt-dlp'): an error rejects the promise and the
\* catch block answers 500; otherwise the upload to Cloudinary starts.  yt-dlp
\* finds no video behind a link that carries no video id.
YtDlpDoneMem ==
    /\ variant = "mem"
    /\ \E i \in 1..Len(intake), ok \in BOOLEAN :
         /\ intake[i].pc = "download"
         /\ IF ok /\ intake[i].req.youtubeUrl.id
            THEN /\ intake' = [intake EXCEPT ![i].pc = "upload"]
                 /\ res' = Resp("INTAKE", intake[i].req, Undefined, 0, "pending", <<>>)
            ELSE /\ intake' = RemoveAt(intake, i)
                 /\ res' = Resp("INTAKE", intake[i].req, Undefined, 500, "source", <<>>)
    /\ UNCHANGED <<variant, messages, now, uuidCtr>>

\* The callback of cloudinary.uploader.upload_stream: an error answers 500;
\* a result pushes the message and answers success.
UploadDoneMem ==
    /\ variant = "mem"
    /\ \E i \in 1..Len(intake), ok \in BOOLEAN :
         /\ intake[i].pc = "upload"
         /\ intake' = RemoveAt(intake, i)
         /\ IF ok
            THEN /\ Len(messages) < MaxStore
                 /\ messages' = Append(messages, IntakeMessageMem(intake[i].req, now))
                 /\ res' = Resp("INTAKE", intake[i].req, Undefined, 200,
                                Answered(intake[i]),
                                <<IntakeMessageMem(intake[i].req, now)>>)
            ELSE /\ UNCHANGED messages
                 /\ res' = Resp("INTAKE", intake[i].req, Undefined, 500, "upload", <<>>)
    /\ UNCHANGED <<variant, now, uuidCtr>>

\* The client of a request that is uploading closes its connection.  The
\* handler registers no listener for 'close' or 'aborted' on req or res, so
\* nothing else happens: the upload goes on.
ClientGoneMem ==
    /\ variant = "mem"
    /\ \E i \in 1..Len(intake) :
         /\ intake[i].pc = "upload"
         /\ ~intake[i].gone
         /\ intake' = [intake EXCEPT ![i].gone = TRUE]
    /\ UNCHANGED <<variant, messages, now, uuidCtr, res>>

\* GET /health-check: whatever yt-dlp --version does, the answer is 200 with
\* messagesCount: messages.length.
HealthCheckMem ==
    /\ variant = "mem"
    /\ res' = [Resp("HEALTH", NoPayload, Undefined, 200, "none", <<>>)
                 EXCEPT !.count = Len(messages)]
    /\ UNCHANGED <<variant, messages, now, uuidCtr, intake>>

(***************************************************************************)
(* What the SQL engine does for the queries of the variants.  A row is a   *)
(* message whose timestamp is Num(instant), the instant in milliseconds.   *)
(***************************************************************************)
Perms(n) == {f \in [1..n -> 1..n] : \A i, j \in 1..n : f[i] = f[j] => i = j}

\* ORDER BY ... ASC / DESC over rows whose sort keys are keys[1..Len(rows)]:
\* rows with equal keys come in any order.
OrderAsc(rows, keys) ==
    {[i \in 1..Len(rows) |-> rows[f[i]]] :
        f \in {g \in Perms(Len(rows)) :
                 \A i, j \in 1..Len(rows) : i < j => keys[g[i]] <= keys[g[j]]}}

OrderDesc(rows, keys) ==
    {[i \in 1..Len(rows) |-> rows[f[i]]] :
        f \in {g \in Perms(Len(rows)) :
                 \A i, j \in 1..Len(rows) : i < j => keys[g[i]] >= keys[g[j]]}}

\* LIMIT n, for n >= 0
SqlLimit(rows, n) == SubSeq(rows, 1, Min(n, Len(rows)))

\* Array.prototype.reverse
Reverse(rows) == [i \in 1..Len(rows) |-> rows[Len(rows) + 1 - i]]

\* EXTRACT(EPOCH FROM timestamp)::BIGINT * 1000: the cast rounds the seconds
\* to the nearest integer.
EpochMs(ms) == ((ms + 500) \div 1000) * 1000

\* The key of ORDER BY timestamp on the stored column; NULL sorts last.
TimestampKey(m) == IF m.timestamp.k = "null" THEN 2000000000 ELSE m.timestamp.n
TimestampKeys(rows) == [i \in 1..Len(rows) |-> TimestampKey(rows[i])]

\* The key of ORDER BY timestamp where the select list names a column
\* "timestamp": the output column.
EpochKey(m) == EpochMs(m.timestamp.n)
EpochKeys(rows) == [i \in 1..Len(rows) |-> EpochKey(rows[i])]

\* A Date column in a JSON response: its ISO-8601 text.
ViewIso(m) == [m EXCEPT !.timestamp = IsoStr(m.timestamp.n)]
ViewEpoch(m) == [m EXCEPT !.timestamp = Num(EpochMs(m.timestamp.n))]

\* The rows of a result as the response shows them.
RowsIso(rows) == [i \in 1..Len(rows) |-> ViewIso(rows[i])]
RowsEpoch(rows) == [i \in 1..Len(rows) |-> ViewEpoch(rows[i])]

(***************************************************************************)
(* src/server.js, second variant: CockroachDB.  The variant does not       *)
(* create its table; the timestamp column holds the epoch-millisecond      *)
(* number that `timestamp || Date.now()` gives, and the id is the table's  *)
(* default.                                                                *)
(***************************************************************************)
InvalidCrdb(p) ==
    \/ ~Truthy(p.username)
    \/ (~Truthy(p.text) /\ ~Truthy(p.image) /\ ~Truthy(p.videoUrl))

\* parseInt(req.query.limit, 10) || 50
LimitCrdb(q) == Or(ParseInt(q), Num(50)).n

GetMessagesCrdb ==
    /\ variant = "crdb"
    /\ \E q \in Limits, dbOk \in BOOLEAN :
         IF ~dbOk
         THEN res' = Resp("GET", NoPayload, q, 500, "store", <<>>)
         ELSE IF LimitCrdb(q) < 0
         THEN res' = Resp("GET", NoPayload, q, 500, "limit", <<>>)
         ELSE \E rows \in OrderAsc(messages, TimestampKeys(messages)) :
                 res' = Resp("GET", NoPayload, q, 200, "none",
                             SqlLimit(rows, LimitCrdb(q)))
    /\ UNCHANGED <<variant, messages, now, uuidCtr, intake>>

RowCrdb(p, id, ms) ==
    Msg(id, Or(p.username, Str(0, 9, 0)), Or(p.text, Null), Or(p.image, Null),
        Or(p.videoUrl, Null), Or(p.timestamp, Num(ms)))

\* logOk: whether new Date(saved.timestamp).toISOString() in the log call
\* returns; it throws a RangeError when the driver hands the column back
\* as text.
PostMessagesCrdb ==
    /\ variant = "crdb"
    /\ \E p \in Payloads, dbOk \in BOOLEAN, logOk \in BOOLEAN :
         IF InvalidCrdb(p)
         THEN /\ res' = Resp("POST", p, Undefined, 400, "validation", <<>>)
              /\ UNCHANGED <<messages, uuidCtr>>
         ELSE IF ~dbOk
         THEN /\ res' = Resp("POST", p, Undefined, 500, "store", <<>>)
              /\ UNCHANGED <<messages, uuidCtr>>
         ELSE IF Or(p.timestamp, Num(now)).k # "number"
         THEN /\ res' = Resp("POST", p, Undefined, 500, "timestamp", <<>>)
              /\ UNCHANGED <<messages, uuidCtr>>
         ELSE /\ Len(messages) < MaxStore
              /\ uuidCtr < MaxUuid
              /\ uuidCtr' = uuidCtr + 1
              /\ messages' = Append(messages, RowCrdb(p, Uuid(uuidCtr + 1), now))
              /\ res' = IF logOk
                        THEN Resp("POST", p, Undefined, 200, "none",
                                  <<RowCrdb(p, Uuid(uuidCtr + 1), now)>>)
                        ELSE Resp("POST", p, Undefined, 500, "range", <<>>)
    /\ UNCHANGED <<variant, now, intake>>

\* GET /health: SELECT NOW() answers, or its error is caught and answered 500.
HealthCrdb ==
    /\ variant = "crdb"
    /\ \E dbOk \in BOOLEAN :
         res' = IF dbOk
                THEN Resp("HEALTH", NoPayload, Undefined, 200, "none", <<>>)
                ELSE Resp("HEALTH", NoPayload, Undefined, 500, "store", <<>>)
    /\ UNCHANGED <<variant, messages, now, uuidCtr, intake>>

(***************************************************************************)
(* src/unnamed/part_000: CockroachDB, ids from uuidv4().                   *)
(***************************************************************************)
InvalidUsernameP000(p) == ~Truthy(p.username) \/ ~Truthy(Trim(p.username))

InvalidContentP000(p) == ~Truthy(p.text) /\ ~Truthy(p.image) /\ ~Truthy(p.videoUrl)

LimitP000(q) == Or(ParseInt(q), Num(50)).n

GetMessagesP000 ==
    /\ variant = "p000"
    /\ \E q \in Limits, dbOk \in BOOLEAN :
         IF ~dbOk
         THEN res' = Resp("GET", NoPayload, q, 500, "store", <<>>)
         ELSE IF LimitP000(q) < 0
         THEN res' = Resp("GET", NoPayload, q, 500, "limit", <<>>)
         ELSE \E rows \in OrderAsc(messages, TimestampKeys(messages)) :
                 res' = Resp("GET", NoPayload, q, 200, "none",
                             RowsIso(SqlLimit(rows, LimitP000(q))))
    /\ UNCHANGED <<variant, messages, now, uuidCtr, intake>>

\* timestamp ? new Date(timestamp) : new Date()
InstantP000(p, ms) == IF Truthy(p.timestamp) THEN NewDate(p.timestamp) ELSE ms

\* (username || 'Anonymous').trim().slice(0, 255)
CleanUsernameP000(u) == Slice(Trim(Or(u, Str(0, 9, 0))), 255)

RowP000(p, id, ms) ==
    Msg(id, CleanUsernameP000(p.username), Or(p.text, Null), Or(p.image, Null),
        Or(p.videoUrl, Null), Num(InstantP000(p, ms)))

PostMessagesP000 ==
    /\ variant = "p000"
    /\ \E p \in Payloads, dbOk \in BOOLEAN :
         IF InvalidUsernameP000(p) \/ InvalidContentP000(p)
         THEN /\ res' = Resp("POST", p, Undefined, 400, "validation", <<>>)
              /\ UNCHANGED <<messages, uuidCtr>>
         ELSE IF InstantP000(p, now) = Invalid
         THEN \* toISOString() throws a RangeError
              /\ res' = Resp("POST", p, Undefined, 500, "range", <<>>)
              /\ UNCHANGED <<messages, uuidCtr>>
         ELSE IF ~dbOk
         THEN /\ res' = Resp("POST", p, Undefined, 500, "store", <<>>)
              /\ UNCHANGED <<messages, uuidCtr>>
         ELSE /\ Len(messages) < MaxStore
              /\ uuidCtr < MaxUuid
              /\ uuidCtr' = uuidCtr + 1
              /\ messages' = Append(messages, RowP000(p, Uuid(uuidCtr + 1), now))
              /\ res' = Resp("POST", p, Undefined, 200, "none",
                             <<ViewIso(RowP000(p, Uuid(uuidCtr + 1), now))>>)
    /\ UNCHANGED <<variant, now, intake>>

ClearP000 ==
    /\ variant = "p000"
    /\ \E dbOk \in BOOLEAN :
         IF dbOk
         THEN /\ messages' = <<>>
              /\ res' = RespCount(200, "none", Len(messages))
         ELSE /\ UNCHANGED messages
              /\ res' = RespCount(500, "store", NoCount)
    /\ UNCHANGED <<variant, now, uuidCtr, intake>>

\* GET /health: SELECT NOW() and SELECT COUNT(*) answer, or the error is
\* caught and answered 500.
HealthP000 ==
    /\ variant = "p000"
    /\ \E dbOk \in BOOLEAN :
         res' = IF dbOk
                THEN [Resp("HEALTH", NoPayload, Undefined, 200, "none", <<>>)
                        EXCEPT !.count = Len(messages)]
                ELSE Resp("HEALTH", NoPayload, Undefined, 500, "store", <<>>)
    /\ UNCHANGED <<variant, messages, now, uuidCtr, intake>>

\* ytdl.validateURL(youtubeUrl): the text parses as a URL of a YouTube host
\* and carries a video id.
validateURL(u) ==
    /\ u.scheme \in {"http://", "https://"}
    /\ u.host \in {"youtube.com", "youtu.be"}
    /\ u.id

\* POST /download-youtube up to ytdl.getInfo: username and timestamp are not
\* looked at.
DownloadYoutubeP000 ==
    /\ variant = "p000"
    /\ \E p \in IntakePayloads :
         IF p.youtubeUrl = NoUrl
         THEN /\ res' = Resp("INTAKE", p, Undefined, 400, "validation", <<>>)
              /\ UNCHANGED intake
         ELSE IF ~validateURL(p.youtubeUrl)
         THEN /\ res' = Resp("INTAKE", p, Undefined, 400, "validation", <<>>)
              /\ UNCHANGED intake
         ELSE /\ Len(intake) < MaxIntake
              /\ intake' = Append(intake, Pending("info", p))
              /\ res' = Resp("INTAKE", p, Undefined, 0, "pending", <<>>)
    /\ UNCHANGED <<variant, messages, now, uuidCtr>>

\* ytdl.getInfo settles: a rejection is caught and answered 500; info without
\* a usable format is answered 400; otherwise the download stream is piped
\* into the upload.
GetInfoDoneP000 ==
    /\ variant = "p000"
    /\ \E i \in 1..Len(intake), outcome \in {"info", "rejected", "no_format"} :
         /\ intake[i].pc = "info"
         /\ CASE outcome = "info" ->
                   /\ intake' = [intake EXCEPT ![i].pc = "upload"]
                   /\ res' = Resp("INTAKE", intake[i].req, Undefined, 0, "pending", <<>>)
              [] outcome = "rejected" ->
                   /\ intake' = RemoveAt(intake, i)
                   /\ res' = Resp("INTAKE", intake[i].req, Undefined, 500, "source", <<>>)
              [] outcome = "no_format" ->
                   /\ intake' = RemoveAt(intake, i)
                   /\ res' = Resp("INTAKE", intake[i].req, Undefined, 400, "source", <<>>)
    /\ UNCHANGED <<variant, messages, now, uuidCtr>>

\* stream.on('error'): the download stream fails while it is piped, and the
\* listener answers 500.  pipe() does not end uploadStream when its source
\* fails, so the upload stays open and its callback is still to come.
StreamErrorP000 ==
    /\ variant = "p000"
    /\ \E i \in 1..Len(intake) :
         /\ intake[i].pc = "upload"
         /\ ~intake[i].answered
         /\ intake' = [intake EXCEPT ![i].answered = TRUE]
         /\ res' = Resp("INTAKE", intake[i].req, Undefined, 500, "source", <<>>)
    /\ UNCHANGED <<variant, messages, now, uuidCtr>>

\* The callback of upload_stream: an error answers 500.  On a result the
\* callback builds the message and calls messages.push(message); this file
\* declares no `messages`, so the call throws a ReferenceError, which the
\* try around it catches and answers 500: nothing is stored.  An upload whose
\* source has failed is never completed and ends with an error; the callback
\* then calls res.status(500).json a second time, which throws for a response
\* that was already sent.
UploadDoneP000 ==
    /\ variant = "p000"
    /\ \E i \in 1..Len(intake), ok \in BOOLEAN :
         /\ intake[i].pc = "upload"
         /\ intake' = RemoveAt(intake, i)
         /\ res' = IF intake[i].answered
                   THEN Resp("INTAKE", intake[i].req, Undefined, 0, "headers_sent", <<>>)
                   ELSE IF ok
                   THEN Resp("INTAKE", intake[i].req, Undefined, 500, "save", <<>>)
                   ELSE Resp("INTAKE", intake[i].req, Undefined, 500, "upload", <<>>)
    /\ UNCHANGED <<variant, messages, now, uuidCtr>>

(***************************************************************************)
(* src/unnamed/part_001: messages in memory, at most 500 of them.          *)
(***************************************************************************)
InvalidP001(p) == ~Truthy(p.username) \/ ~Truthy(p.text) \/ ~Truthy(p.timestamp)

\* Number(req.query.limit) || 50
LimitP001(q) == Or(NumberOf(q), Num(50)).n

\* messages.slice(start) for start >= 0
SliceFrom(rows, start) == SubSeq(rows, start + 1, Len(rows))

\* messages.slice(-n): the last n
SliceLast(rows, n) == SubSeq(rows, Max(Len(rows) - n, 0) + 1, Len(rows))

GetMessagesP001 ==
    /\ variant = "p001"
    /\ \E q \in Limits :
         res' = Resp("GET", NoPayload, q, 200, "none",
                     SliceFrom(messages, Max(Len(messages) - LimitP001(q), 0)))
    /\ UNCHANGED <<variant, messages, now, uuidCtr, intake>>

MessageP001(p, id) == Msg(id, p.username, p.text, Undefined, Undefined, p.timestamp)

\* The cut written as messages.slice(0, 500): the first 500 are kept.
PushP001Mutant(rows, m) ==
    IF Len(Append(rows, m)) > 500 THEN SubSeq(Append(rows, m), 1, 500) ELSE Append(rows, m)

PushP001(rows, m) ==
    IF Len(Append(rows, m)) > 500 THEN SliceLast(Append(rows, m), 500) ELSE Append(rows, m)

\* POST /messages with the body p.
PostP001(p) ==
    /\ variant = "p001"
    /\ IF InvalidP001(p)
       THEN /\ res' = Resp("POST", p, Undefined, 400, "validation", <<>>)
            /\ UNCHANGED <<messages, uuidCtr>>
       ELSE /\ Len(PushP001(messages, MessageP001(p, Uuid(uuidCtr + 1))))
                  <= Max(MaxStore, Len(messages))
            /\ uuidCtr < MaxUuid
            /\ uuidCtr' = uuidCtr + 1
            /\ messages' = PushP001(messages, MessageP001(p, Uuid(uuidCtr + 1)))
            /\ res' = Resp("POST", p, Undefined, 201, "none",
                           <<MessageP001(p, Uuid(uuidCtr + 1))>>)
    /\ UNCHANGED <<variant, now, intake>>

PostMessagesP001 == \E p \in Payloads : PostP001(p)

(***************************************************************************)
(* src/unnamed/part_003: a Supabase table.  The variant does not create    *)
(* the table: it stores the message as sent, and id is its primary key.    *)
(***************************************************************************)
InvalidP003(p) ==
    \/ ~Truthy(p.username)
    \/ (~Truthy(p.text) /\ ~Truthy(p.image) /\ ~Truthy(p.videoUrl))

\* JSON.stringify drops an undefined field, and the column is then NULL.
MessageP003(p, ms) ==
    Msg(MsId(ms), p.username, Or(p.text, Null), Or(p.image, Null),
        Or(p.videoUrl, Null), IF p.timestamp.k = "undefined" THEN Null ELSE p.timestamp)

\* GET /messages without its if (error): the answer is data || [] even when
\* Supabase reports an error.
GetMessagesP003Mutant ==
    /\ variant = "p003"
    /\ \E dbOk \in BOOLEAN :
         IF ~dbOk
         THEN res' = Resp("GET", NoPayload, Undefined, 200, "store", <<>>)
         ELSE \E rows \in OrderAsc(messages, TimestampKeys(messages)) :
                 res' = Resp("GET", NoPayload, Undefined, 200, "none", rows)
    /\ UNCHANGED <<variant, messages, now, uuidCtr, intake>>

GetMessagesP003 ==
    /\ variant = "p003"
    /\ \E dbOk \in BOOLEAN :
         IF ~dbOk
         THEN res' = Resp("GET", NoPayload, Undefined, 500, "store", <<>>)
         ELSE \E rows \in OrderAsc(messages, TimestampKeys(messages)) :
                 res' = Resp("GET", NoPayload, Undefined, 200, "none", rows)
    /\ UNCHANGED <<variant, messages, now, uuidCtr, intake>>

PostMessagesP003 ==
    /\ variant = "p003"
    /\ \E p \in Payloads, dbOk \in BOOLEAN :
         IF InvalidP003(p)
         THEN /\ res' = Resp("POST", p, Undefined, 400, "validation", <<>>)
              /\ UNCHANGED messages
         ELSE IF ~dbOk
         THEN /\ res' = Resp("POST", p, Undefined, 500, "store", <<>>)
              /\ UNCHANGED messages
         ELSE IF \E i \in 1..Len(messages) : messages[i].id = MsId(now)
         THEN /\ res' = Resp("POST", p, Undefined, 500, "duplicate", <<>>)
              /\ UNCHANGED messages
         ELSE /\ Len(messages) < MaxStore
              /\ messages' = Append(messages, MessageP003(p, now))
              /\ res' = Resp("POST", p, Undefined, 200, "none",
                             <<[NoMessage EXCEPT !.id = MsId(now)]>>)
    /\ UNCHANGED <<variant, now, uuidCtr, intake>>

ClearP003 ==
    /\ variant = "p003"
    /\ \E dbOk \in BOOLEAN :
         IF dbOk
         THEN /\ messages' = <<>>
              /\ res' = Resp("CLEAR", NoPayload, Undefined, 200, "none", <<>>)
         ELSE /\ UNCHANGED messages
              /\ res' = Resp("CLEAR", NoPayload, Undefined, 500, "store", <<>>)
    /\ UNCHANGED <<variant, now, uuidCtr, intake>>

\* GET /health-check: the count query's outcome is ignored; messagesCount
\* stays 0.
HealthCheckP003 ==
    /\ variant = "p003"
    /\ res' = [Resp("HEALTH", NoPayload, Undefined, 200, "none", <<>>)
                 EXCEPT !.count = 0]
    /\ UNCHANGED <<variant, messages, now, uuidCtr, intake>>

\* POST /download-youtube up to ytdl.getInfo.
DownloadYoutubeP003 ==
    /\ variant = "p003"
    /\ \E p \in IntakePayloads :
         IF p.youtubeUrl = NoUrl
         THEN /\ res' = Resp("INTAKE", p, Undefined, 400, "validation", <<>>)
              /\ UNCHANGED intake
         ELSE IF ~Truthy(p.username) \/ ~Truthy(p.timestamp)
         THEN /\ res' = Resp("INTAKE", p, Undefined, 400, "validation", <<>>)
              /\ UNCHANGED intake
         ELSE IF ~youtubeRegex(p.youtubeUrl)
         THEN /\ res' = Resp("INTAKE", p, Undefined, 400, "validation", <<>>)
              /\ UNCHANGED intake
         ELSE /\ Len(intake) < MaxIntake
              /\ intake' = Append(intake, Pending("info", p))
              /\ res' = Resp("INTAKE", p, Undefined, 0, "pending", <<>>)
    /\ UNCHANGED <<variant, messages, now, uuidCtr>>

\* ytdl.getInfo settles, and ytdl() opens the download stream: a rejection or
\* a throw is answered 400; otherwise the stream is piped into the upload.
\* getInfo rejects a link that carries no video id.
GetInfoDoneP003 ==
    /\ variant = "p003"
    /\ \E i \in 1..Len(intake), ok \in BOOLEAN :
         /\ intake[i].pc = "info"
         /\ IF ok /\ intake[i].req.youtubeUrl.id
            THEN /\ intake' = [intake EXCEPT ![i].pc = "upload"]
                 /\ res' = Resp("INTAKE", intake[i].req, Undefined, 0, "pending", <<>>)
            ELSE /\ intake' = RemoveAt(intake, i)
                 /\ res' = Resp("INTAKE", intake[i].req, Undefined, 400, "source", <<>>)
    /\ UNCHANGED <<variant, messages, now, uuidCtr>>

\* The download stream emits 'error' while it is piped.  The handler puts a
\* listener on uploadStream only, none on stream, so the event is an uncaught
\* exception: the process ends, and no request in flight is answered.  The
\* table is Supabase's and keeps its rows.
StreamErrorP003 ==
    /\ variant = "p003"
    /\ \E i \in 1..Len(intake) :
         /\ intake[i].pc = "upload"
         /\ intake' = <<>>
         /\ res' = Resp("INTAKE", intake[i].req, Undefined, 0, "crash", <<>>)
    /\ UNCHANGED <<variant, messages, now, uuidCtr>>

IntakeMessageP003(r, ms) ==
    [NoMessage EXCEPT !.id = MsId(ms), !.username = r.username,
                      !.videoUrl = Concat(SecureUrl, SuffixLen),
                      !.timestamp = r.timestamp, !.youtubeUrl = r.youtubeUrl,
                      !.youtubeTitle = Str(0, 13, 0)]

\* The callback of upload_stream: an error answers 500; on a result the
\* message is inserted, and an insert error answers 500.
UploadDoneP003 ==
    /\ variant = "p003"
    /\ \E i \in 1..Len(intake), ok \in BOOLEAN, dbOk \in BOOLEAN :
         /\ intake[i].pc = "upload"
         /\ intake' = RemoveAt(intake, i)
         /\ IF ~ok
            THEN /\ UNCHANGED messages
                 /\ res' = Resp("INTAKE", intake[i].req, Undefined, 500, "upload", <<>>)
            ELSE IF ~dbOk
            THEN /\ UNCHANGED messages
                 /\ res' = Resp("INTAKE", intake[i].req, Undefined, 500, "store", <<>>)
            ELSE IF \E j \in 1..Len(messages) : messages[j].id = MsId(now)
            THEN /\ UNCHANGED messages
                 /\ res' = Resp("INTAKE", intake[i].req, Undefined, 500, "duplicate", <<>>)
            ELSE /\ Len(messages) < MaxStore
                 /\ messages' = Append(messages, IntakeMessageP003(intake[i].req, now))
                 /\ res' = Resp("INTAKE", intake[i].req, Undefined, 200, "none",
                                <<IntakeMessageP003(intake[i].req, now)>>)
    /\ UNCHANGED <<variant, now, uuidCtr>>

(***************************************************************************)
(* src/unnamed/part_005: SQL, timestamps kept as TIMESTAMPTZ.              *)
(***************************************************************************)
\* !username?.trim() || !text?.trim()
InvalidP005(p) == ~Truthy(OptTrim(p.username)) \/ ~Truthy(OptTrim(p.text))

\* Math.min(Number(req.query.limit) || 50, 100)
LimitP005(q) == Min(Or(NumberOf(q), Num(50)).n, 100)

GetMessagesP005 ==
    /\ variant = "p005"
    /\ \E q \in Limits, dbOk \in BOOLEAN :
         IF ~dbOk
         THEN res' = Resp("GET", NoPayload, q, 500, "store", <<>>)
         ELSE IF LimitP005(q) < 0
         THEN res' = Resp("GET", NoPayload, q, 500, "limit", <<>>)
         ELSE \E rows \in OrderDesc(messages, EpochKeys(messages)) :
                 res' = Resp("GET", NoPayload, q, 200, "none",
                             Reverse(RowsEpoch(SqlLimit(rows, LimitP005(q)))))
    /\ UNCHANGED <<variant, messages, now, uuidCtr, intake>>

\* The instants the SQL text built for the timestamp can denote, the empty
\* set when the engine rejects it.  '<text>'::timestamptz is the instant the
\* text names; to_timestamp(<n> / 1000) is n milliseconds where the engine
\* divides exactly and whole seconds where it divides integers;
\* to_timestamp(NaN / 1000) is rejected.
InstantsP005(ts) ==
    IF ts.k = "string"
    THEN (IF ts.n = Invalid THEN {} ELSE {ts.n})
    ELSE IF NumberOf(ts).k = "nan"
    THEN {}
    ELSE {NumberOf(ts).n, (NumberOf(ts).n \div 1000) * 1000}

RowP005(p, id, inst) ==
    Msg(id, Trim(p.username), Trim(p.text), Undefined, Undefined, Num(inst))

PostMessagesP005 ==
    /\ variant = "p005"
    /\ \E p \in Payloads, dbOk \in BOOLEAN :
         IF InvalidP005(p)
         THEN /\ res' = Resp("POST", p, Undefined, 400, "validation", <<>>)
              /\ UNCHANGED <<messages, uuidCtr>>
         ELSE IF ~dbOk
         THEN /\ res' = Resp("POST", p, Undefined, 500, "store", <<>>)
              /\ UNCHANGED <<messages, uuidCtr>>
         ELSE IF InstantsP005(p.timestamp) = {}
         THEN /\ res' = Resp("POST", p, Undefined, 500, "timestamp", <<>>)
              /\ UNCHANGED <<messages, uuidCtr>>
         ELSE IF Length(Trim(p.username)) > 50
         THEN \* username VARCHAR(50)
              /\ res' = Resp("POST", p, Undefined, 500, "too_long", <<>>)
              /\ UNCHANGED <<messages, uuidCtr>>
         ELSE /\ Len(messages) < MaxStore
              /\ uuidCtr < MaxUuid
              /\ uuidCtr' = uuidCtr + 1
              /\ \E inst \in InstantsP005(p.timestamp) :
                   /\ messages' = Append(messages, RowP005(p, Uuid(uuidCtr + 1), inst))
                   /\ res' = Resp("POST", p, Undefined, 201, "none",
                                  <<ViewEpoch(RowP005(p, Uuid(uuidCtr + 1), inst))>>)
    /\ UNCHANGED <<variant, now, intake>>

\* initDB() of part_005 with the first statement of part_007's: the table is
\* dropped before it is created.
initDBP005Mutant ==
    /\ variant = "p005"
    /\ \E dbOk \in BOOLEAN :
         IF dbOk
         THEN /\ messages' = <<>>
              /\ res' = Resp("START", NoPayload, Undefined, 0, "none", <<>>)
         ELSE /\ UNCHANGED messages
              /\ res' = Resp("START", NoPayload, Undefined, 0, "store", <<>>)
    /\ UNCHANGED <<variant, now, uuidCtr, intake>>

\* The process starts again: initDB() runs CREATE TABLE IF NOT EXISTS, which
\* leaves an existing table alone, and a DELETE of the rows whose timestamp
\* reads 'Invalid Timestamp', which no TIMESTAMPTZ does; an error is caught
\* and logged, and the server listens either way.
initDBP005 ==
    /\ variant = "p005"
    /\ \E dbOk \in BOOLEAN :
         res' = IF dbOk
                THEN Resp("START", NoPayload, Undefined, 0, "none", <<>>)
                ELSE Resp("START", NoPayload, Undefined, 0, "store", <<>>)
    /\ UNCHANGED <<variant, messages, now, uuidCtr, intake>>

(***************************************************************************)
(* src/unnamed/part_007: SQL, with image and device columns.               *)
(***************************************************************************)
\* !username?.trim() || (!text?.trim() && !image)
InvalidP007(p) ==
    \/ ~Truthy(OptTrim(p.username))
    \/ (~Truthy(OptTrim(p.text)) /\ ~Truthy(p.image))

\* Math.min(Number(req.query.limit) || 50, 500)
LimitP007(q) == Min(Or(NumberOf(q), Num(50)).n, 500)

GetMessagesP007 ==
    /\ variant = "p007"
    /\ \E q \in Limits, dbOk \in BOOLEAN :
         IF ~dbOk
         THEN res' = Resp("GET", NoPayload, q, 500, "store", <<>>)
         ELSE IF LimitP007(q) < 0
         THEN res' = Resp("GET", NoPayload, q, 500, "limit", <<>>)
         ELSE \E rows \in OrderDesc(messages, EpochKeys(messages)) :
                 res' = Resp("GET", NoPayload, q, 200, "none",
                             Reverse(RowsEpoch(SqlLimit(rows, LimitP007(q)))))
    /\ UNCHANGED <<variant, messages, now, uuidCtr, intake>>

\* image.substring(0, 50000000) for an image longer than that
ImageToStoreP007(image) ==
    IF Truthy(image) /\ Length(image) > 50000000 THEN Slice(image, 50000000) ELSE image

\* let ts = new Date(); if (timestamp) ts = new Date(timestamp), through
\* Number() unless it is a string
InstantP007(p, ms) ==
    IF ~Truthy(p.timestamp) THEN ms
    ELSE IF p.timestamp.k = "string" THEN NewDate(p.timestamp)
    ELSE NewDate(NumberOf(p.timestamp))

RowP007(p, id, ms) ==
    [Msg(id, Trim(p.username), Or(OptTrim(p.text), Str(0, 0, 0)),
         Or(ImageToStoreP007(p.image), Null), Undefined, Num(InstantP007(p, ms)))
        EXCEPT !.device = Or(p.device, Str(0, 7, 0))]

PostMessagesP007 ==
    /\ variant = "p007"
    /\ \E p \in Payloads, dbOk \in BOOLEAN :
         IF InvalidP007(p)
         THEN /\ res' = Resp("POST", p, Undefined, 400, "validation", <<>>)
              /\ UNCHANGED <<messages, uuidCtr>>
         ELSE IF ~dbOk
         THEN /\ res' = Resp("POST", p, Undefined, 500, "store", <<>>)
              /\ UNCHANGED <<messages, uuidCtr>>
         ELSE IF InstantP007(p, now) = Invalid
         THEN \* the driver sends an Invalid Date as text the engine rejects
              /\ res' = Resp("POST", p, Undefined, 500, "timestamp", <<>>)
              /\ UNCHANGED <<messages, uuidCtr>>
         ELSE IF Length(Trim(p.username)) > 100 \/ Length(Or(p.device, Str(0, 7, 0))) > 100
         THEN \* username VARCHAR(100), device VARCHAR(100)
              /\ res' = Resp("POST", p, Undefined, 500, "too_long", <<>>)
              /\ UNCHANGED <<messages, uuidCtr>>
         ELSE /\ Len(messages) < MaxStore
              /\ uuidCtr < MaxUuid
              /\ uuidCtr' = uuidCtr + 1
              /\ messages' = Append(messages, RowP007(p, Uuid(uuidCtr + 1), now))
              /\ res' = Resp("POST", p, Undefined, 201, "none",
                             <<ViewEpoch(RowP007(p, Uuid(uuidCtr + 1), now))>>)
    /\ UNCHANGED <<variant, now, intake>>

\* The process starts again: initDB() runs DROP TABLE IF EXISTS messages
\* CASCADE and creates the table anew; when the database cannot be reached
\* the error is caught and logged, the table stays as it was, and the server
\* listens either way.
initDBP007 ==
    /\ variant = "p007"
    /\ \E dbOk \in BOOLEAN :
         IF dbOk
         THEN /\ messages' = <<>>
              /\ res' = Resp("START", NoPayload, Undefined, 0, "none", <<>>)
         ELSE /\ UNCHANGED messages
              /\ res' = Resp("START", NoPayload, Undefined, 0, "store", <<>>)
    /\ UNCHANGED <<variant, now, uuidCtr, intake>>

(***************************************************************************)
(* src/unnamed/part_008: CockroachDB, the TIMESTAMPTZ column returned as   *)
(* it is.                                                                  *)
(***************************************************************************)
\* !username?.trim() || !text?.trim() || !timestamp
InvalidP008(p) ==
    \/ ~Truthy(OptTrim(p.username))
    \/ ~Truthy(OptTrim(p.text))
    \/ ~Truthy(p.timestamp)

\* Math.min(Number(req.query.limit) || 50, 100)
LimitP008(q) == Min(Or(NumberOf(q), Num(50)).n, 100)

GetMessagesP008 ==
    /\ variant = "p008"
    /\ \E q \in Limits, dbOk \in BOOLEAN :
         IF ~dbOk
         THEN res' = Resp("GET", NoPayload, q, 500, "store", <<>>)
         ELSE IF LimitP008(q) < 0
         THEN res' = Resp("GET", NoPayload, q, 500, "limit", <<>>)
         ELSE \E rows \in OrderDesc(messages, TimestampKeys(messages)) :
                 res' = Resp("GET", NoPayload, q, 200, "none",
                             Reverse(RowsIso(SqlLimit(rows, LimitP008(q)))))
    /\ UNCHANGED <<variant, messages, now, uuidCtr, intake>>

\* to_timestamp($3 / 1000) with $3 = Number(timestamp); CockroachDB divides
\* exactly.
RowP008(p, id) ==
    Msg(id, Trim(p.username), Trim(p.text), Undefined, Undefined,
        Num(NumberOf(p.timestamp).n))

PostMessagesP008 ==
    /\ variant = "p008"
    /\ \E p \in Payloads, dbOk \in BOOLEAN :
         IF InvalidP008(p)
         THEN /\ res' = Resp("POST", p, Undefined, 400, "validation", <<>>)
              /\ UNCHANGED <<messages, uuidCtr>>
         ELSE IF ~dbOk
         THEN /\ res' = Resp("POST", p, Undefined, 500, "store", <<>>)
              /\ UNCHANGED <<messages, uuidCtr>>
         ELSE IF NumberOf(p.timestamp).k = "nan"
         THEN /\ res' = Resp("POST", p, Undefined, 500, "timestamp", <<>>)
              /\ UNCHANGED <<messages, uuidCtr>>
         ELSE IF Length(Trim(p.username)) > 50
         THEN \* username VARCHAR(50)
              /\ res' = Resp("POST", p, Undefined, 500, "too_long", <<>>)
              /\ UNCHANGED <<messages, uuidCtr>>
         ELSE /\ Len(messages) < MaxStore
              /\ uuidCtr < MaxUuid
              /\ uuidCtr' = uuidCtr + 1
              /\ messages' = Append(messages, RowP008(p, Uuid(uuidCtr + 1)))
              /\ res' = Resp("POST", p, Undefined, 201, "none",
                             <<ViewIso(RowP008(p, Uuid(uuidCtr + 1)))>>)
    /\ UNCHANGED <<variant, now, intake>>

\* The process starts again: initDB() runs CREATE TABLE IF NOT EXISTS and
\* CREATE INDEX IF NOT EXISTS; an error is caught and logged.
initDBP008 ==
    /\ variant = "p008"
    /\ \E dbOk \in BOOLEAN :
         res' = IF dbOk
                THEN Resp("START", NoPayload, Undefined, 0, "none", <<>>)
                ELSE Resp("START", NoPayload, Undefined, 0, "store", <<>>)
    /\ UNCHANGED <<variant, messages, now, uuidCtr, intake>>

(***************************************************************************)
(* The clock behind Date.now() and new Date().                             *)
(***************************************************************************)
Now0 == 7400

Tick ==
    /\ now < Now0 + MaxTicks
    /\ now' = now + 1
    /\ UNCHANGED <<variant, messages, uuidCtr, res, intake>>

Init ==
    /\ variant \in Variants
    /\ messages = <<>>
    /\ now = Now0
    /\ uuidCtr = 0
    /\ res = NoResp
    /\ intake = <<>>

Next ==
    \/ Tick
    \/ GetMessagesMem
    \/ PostMessagesMem
    \/ ClearMem
    \/ DownloadYoutubeMem
    \/ YtDlpDoneMem
    \/ UploadDoneMem
    \/ GetMessagesCrdb
    \/ PostMessagesCrdb
    \/ GetMessagesP000
    \/ PostMessagesP000
    \/ ClearP000
    \/ GetMessagesP001
    \/ PostMessagesP001
    \/ GetMessagesP003
    \/ PostMessagesP003
    \/ ClearP003
    \/ GetMessagesP005
    \/ PostMessagesP005
    \/ GetMessagesP007
    \/ PostMessagesP007
    \/ GetMessagesP008
    \/ PostMessagesP008
    \/ ClientGoneMem
    \/ HealthCheckMem
    \/ HealthCrdb
    \/ HealthP000
    \/ DownloadYoutubeP000
    \/ GetInfoDoneP000
    \/ StreamErrorP000
    \/ UploadDoneP000
    \/ HealthCheckP003
    \/ DownloadYoutubeP003
    \/ GetInfoDoneP003
    \/ StreamErrorP003
    \/ UploadDoneP003
    \/ initDBP005
    \/ initDBP007
    \/ initDBP008

Spec == Init /\ [][Next]_vars

(***************************************************************************)
(* The write path alone: POST /messages and the bulk delete of every       *)
(* variant, and the clock.                                                 *)
(***************************************************************************)
NextIngest ==
    \/ Tick
    \/ PostMessagesMem
    \/ PostMessagesCrdb
    \/ PostMessagesP000
    \/ PostMessagesP001
    \/ PostMessagesP003
    \/ PostMessagesP005
    \/ PostMessagesP007
    \/ PostMessagesP008
    \/ ClearMem
    \/ ClearP000
    \/ ClearP003

SpecIngest == Init /\ [][NextIngest]_vars

(***************************************************************************)
(* src/unnamed/part_001 once its array is full: 500 messages were posted   *)
(* before the behaviour starts, with the identifiers drawn then.           *)
(***************************************************************************)
FullP001 == [i \in 1..500 |-> MessageP001(BasePayload, Uuid(i - 500))]

InitHistory ==
    /\ variant = "p001"
    /\ messages = FullP001
    /\ now = Now0
    /\ uuidCtr = 0
    /\ res = NoResp
    /\ intake = <<>>

NextHistory ==
    \/ Tick
    \/ GetMessagesP001
    \/ PostMessagesP001

SpecHistory == InitHistory /\ [][NextHistory]_vars

(***************************************************************************)
(* The remote video intake of part_003 under the assumption that every     *)
(* collaborator call ends: ytdl.getInfo settles, and a piped download ends *)
(* in the upload callback or in an 'error' event of the stream.            *)
(***************************************************************************)
NextLive ==
    \/ Tick
    \/ GetMessagesP003
    \/ DownloadYoutubeP003
    \/ GetInfoDoneP003
    \/ StreamErrorP003
    \/ UploadDoneP003

SpecLive ==
    /\ Init
    /\ [][NextLive]_vars
    /\ WF_vars(GetInfoDoneP003)
    /\ WF_vars(StreamErrorP003 \/ UploadDoneP003)

(***************************************************************************)
(* src/server.js with its messages in memory, alone: the three routes of   *)
(* /messages, called with a few bodies, next to the remote video intake.   *)
(***************************************************************************)
\* {username: "bob", text: "hi", timestamp: 1200}, the same with blanks
\* around both strings, and {}
ChatPayloads ==
    {BasePayload,
     [BasePayload EXCEPT !.username = Str(1, 3, 1), !.text = Str(1, 2, 1)],
     NoPayload}

PostMessagesChat == \E p \in ChatPayloads : PostMem(p)

InitMem ==
    /\ variant = "mem"
    /\ messages = <<>>
    /\ now = Now0
    /\ uuidCtr = 0
    /\ res = NoResp
    /\ intake = <<>>

NextMem ==
    \/ Tick
    \/ GetMessagesMem
    \/ PostMessagesChat
    \/ ClearMem
    \/ DownloadYoutubeMem
    \/ YtDlpDoneMem
    \/ UploadDoneMem
    \/ ClientGoneMem

SpecMem == InitMem /\ [][NextMem]_vars

(***************************************************************************)
(* Four variants that keep their messages in a database or in Supabase,    *)
(* alone: the routes of /messages, each call of the store succeeding or    *)
(* reporting an error.                                                     *)
(***************************************************************************)
StoreVariants == {"p003", "p005", "p007", "p008"}

InitStore ==
    /\ variant \in StoreVariants
    /\ messages = <<>>
    /\ now = Now0
    /\ uuidCtr = 0
    /\ res = NoResp
    /\ intake = <<>>

NextStore ==
    \/ Tick
    \/ GetMessagesP003
    \/ PostMessagesP003
    \/ ClearP003
    \/ GetMessagesP005
    \/ PostMessagesP005
    \/ GetMessagesP007
    \/ PostMessagesP007
    \/ GetMessagesP008
    \/ PostMessagesP008

SpecStore == InitStore /\ [][NextStore]_vars

(***************************************************************************)
(* The three variants whose start-up runs initDB(), alone: the process is  *)
(* started again at any moment between two requests.                       *)
(***************************************************************************)
InitRestart ==
    /\ variant \in {"p005", "p007", "p008"}
    /\ messages = <<>>
    /\ now = Now0
    /\ uuidCtr = 0
    /\ res = NoResp
    /\ intake = <<>>

NextRestart ==
    \/ Tick
    \/ GetMessagesP005
    \/ PostMessagesP005
    \/ initDBP005
    \/ GetMessagesP007
    \/ PostMessagesP007
    \/ initDBP007
    \/ GetMessagesP008
    \/ PostMessagesP008
    \/ initDBP008

SpecRestart == InitRestart /\ [][NextRestart]_vars

(***************************************************************************)
(* src/unnamed/part_001 around its cut at 500 messages: the array starts   *)
(* empty or with 500 messages posted earlier, and POST /messages is called *)
(* with a few bodies.                                                      *)
(***************************************************************************)
PostMessagesRecent == \E p \in ChatPayloads : PostP001(p)

InitRecent ==
    /\ variant = "p001"
    /\ messages \in {<<>>, FullP001}
    /\ now = Now0
    /\ uuidCtr = 0
    /\ res = NoResp
    /\ intake = <<>>

NextRecent ==
    \/ GetMessagesP001
    \/ PostMessagesRecent

SpecRecent == InitRecent /\ [][NextRecent]_vars

(***************************************************************************)
(* Properties.                                                             *)
(***************************************************************************)
Created(r) == r.status \in {200, 201}

\* A field the request does not carry.
Missing(v) == v.k \in {"undefined", "null"}

\* What GET /messages shows of a stored message in the running variant.
View(m) ==
    CASE variant \in {"p000", "p008"} -> ViewIso(m)
      [] variant \in {"p005", "p007"} -> ViewEpoch(m)
      [] OTHER -> m

\* The stored messages carry numeric timestamps, no two the same.
DistinctTimestamps ==
    /\ \A i \in 1..Len(messages) : messages[i].timestamp.k = "number"
    /\ \A i, j \in 1..Len(messages) :
         i # j => messages[i].timestamp.n # messages[j].timestamp.n

NonDecreasing(rows) ==
    \A i, j \in 1..Len(rows) : i < j => rows[i].timestamp.n <= rows[j].timestamp.n

Ids(rows) == {rows[i].id : i \in 1..Len(rows)}

C2_BlankUsernameRejected ==
    (res.op = "POST" /\ Length(OptTrim(res.req.username)) = 0) => res.status = 400

\* C3: when the stored messages carry distinct timestamps, GET /messages
\* returns them in non-decreasing timestamp order, whatever the order they
\* were posted in.
C3_OrderInvariant ==
    (res.op = "GET" /\ res.status = 200 /\ DistinctTimestamps) => NonDecreasing(res.body)

\* C4: GET /messages?limit=N with N smaller than the number of stored
\* messages returns the N messages with the greatest timestamps, oldest first.
C4_LimitMostRecent ==
    (/\ res.op = "GET"
     /\ res.status = 200
     /\ res.query.k = "number"
     /\ res.query.n > 0
     /\ res.query.n < Len(messages)
     /\ DistinctTimestamps)
    => /\ Len(res.body) = res.query.n
       /\ NonDecreasing(res.body)
       /\ \A i \in 1..Len(messages) :
            \/ messages[i].id \in Ids(res.body)
            \/ \A j \in 1..Len(messages) :
                 messages[j].id \in Ids(res.body)
                    => messages[i].timestamp.n < messages[j].timestamp.n

\* C5: for every value of the limit parameter GET /messages succeeds, unless
\* the store itself is unreachable, and returns no more messages than the
\* ceiling.
C5_LimitClamped ==
    (res.op = "GET" /\ res.err # "store") => (res.status = 200 /\ Len(res.body) <= 500)

\* C6: GET /messages on an empty store that is reachable answers 200 with an
\* empty array.
C6_EmptyList ==
    (res.op = "GET" /\ messages = <<>> /\ res.err # "store")
    => (res.status = 200 /\ res.body = <<>>)

\* C7: in the variants that sanitize the username, a POST /messages whose text is longer than 5000 and whose username is
\* longer than 50 characters is accepted, and the stored text and username
\* are the first 5000 and the first 50 characters of the trimmed input.
C7_Truncation ==
    (/\ variant \in {"p000", "p007"}
     /\ res.op = "POST"
     /\ res.err # "store"
     /\ Length(OptTrim(res.req.text)) > 5000
     /\ Length(OptTrim(res.req.username)) > 50)
    => /\ Created(res)
       /\ Last(messages).text = Slice(Trim(res.req.text), 5000)
       /\ Last(messages).username = Slice(Trim(res.req.username), 50)

\* C8: after a successful POST /messages the record GET /messages shows for
\* it has the trimmed username, the trimmed text, the media as sent, and the
\* timestamp sent, or the server's time when none was sent.
C8_RoundTrip ==
    (res.op = "POST" /\ Created(res))
    => LET m == View(Last(messages))
       IN  /\ m.username = Trim(res.req.username)
           /\ IF Truthy(res.req.text)
              THEN m.text = Trim(res.req.text)
              ELSE ~Truthy(m.text)
           /\ IF Truthy(res.req.image)
              THEN m.image = res.req.image
              ELSE ~Truthy(m.image)
           /\ NewDate(m.timestamp) =
                 IF Missing(res.req.timestamp) THEN now ELSE NewDate(res.req.timestamp)

\* C9: in the variants that keep the timestamp as TIMESTAMPTZ and return
\* EXTRACT(EPOCH ...)::BIGINT * 1000, a POST /messages with the integer
\* timestamp T returns, and GET /messages later shows, exactly T.
C9_TimestampExact ==
    (/\ variant \in {"p005", "p007"}
     /\ res.op = "POST"
     /\ Created(res)
     /\ res.req.timestamp.k = "number")
    => /\ res.body[1].timestamp = res.req.timestamp
       /\ View(Last(messages)).timestamp = res.req.timestamp

\* C10: no two stored messages carry the same id.
C10_UniqueIds ==
    \A i, j \in 1..Len(messages) : i # j => messages[i].id # messages[j].id

\* The messages of a store, as a set.
Stored(rows) == {rows[i] : i \in 1..Len(rows)}

\* A response of /download-youtube that reports a failed step.
IntakeFailed(r) ==
    /\ r.op = "INTAKE"
    /\ r.err \in {"source", "upload", "store", "save", "duplicate", "crash"}

C12_MessageWellFormed ==
    \A i \in 1..Len(messages) :
       /\ Truthy(messages[i].username)
       /\ ~Missing(messages[i].timestamp)
       /\ \/ Truthy(messages[i].text)
          \/ Truthy(messages[i].image)
          \/ Truthy(messages[i].videoUrl)
          \/ messages[i].youtubeUrl # NoUrl

\* C13: a stored message stays in the store, unchanged, through every
\* operation other than a delete.
C13_StoredUntilDeleted ==
    [][res'.op # "CLEAR" => Stored(messages) \subseteq Stored(messages')]_vars

\* C14: DELETE /messages/clear, the store being reachable, leaves no message
\* and reports in its response how many messages the store held.
C14_ClearReportsCount ==
    [][(res'.op = "CLEAR" /\ res'.err # "store" /\ now' = now /\ intake' = intake)
       => (messages' = <<>> /\ res'.count = Len(messages))]_vars

\* C15: POST /download-youtube with a link that does not match the YouTube
\* pattern, or that carries no video id, is answered 400 and never waits for
\* the video source or the upload.
C15_BadLinkRejected ==
    /\ \A i \in 1..Len(intake) :
          youtubeRegex(intake[i].req.youtubeUrl) /\ intake[i].req.youtubeUrl.id
    /\ (/\ res.op = "INTAKE"
        /\ res.req.youtubeUrl # NoUrl
        /\ ~(youtubeRegex(res.req.youtubeUrl) /\ res.req.youtubeUrl.id))
       => res.status = 400

\* C16: when a step of a remote video intake fails, the caller is answered
\* 400 or 500 and the store is left as it was.
C16_IntakeFailureAnswered ==
    [][(IntakeFailed(res') /\ res' # res)
       => (res'.status \in {400, 500} /\ messages' = messages)]_vars

\* C17: when the upload of a remote video intake succeeds and the store is
\* reachable, one message is recorded with the returned URL as its videoUrl
\* and the submitted link as its youtubeUrl, and the caller is answered
\* success.
C17_UploadRecorded ==
    [][(/\ res'.op = "INTAKE"
        /\ Len(intake') < Len(intake)
        /\ \E i \in 1..Len(intake) : intake[i].pc = "upload"
        /\ res'.err \notin {"source", "upload", "store", "crash", "headers_sent"})
       => /\ Created(res')
          /\ Len(messages') = Len(messages) + 1
          /\ messages' = Append(messages, Last(messages'))
          /\ Last(messages').videoUrl = Concat(SecureUrl, SuffixLen)
          /\ Last(messages').youtubeUrl = res'.req.youtubeUrl]_vars

\* C18: a remote video intake whose client has closed the connection during
\* the upload records no message when it ends.
C18_AbortedNotRecorded ==
    [][(\E i \in 1..Len(intake) : intake[i].gone /\ Len(intake') < Len(intake))
       => messages' = messages]_vars

\* C19: the health probe is always answered 200.
C19_HealthAlwaysOk ==
    res.op = "HEALTH" => res.status = 200

\* C20: in POST /messages a timestamp that is an integer or an ISO-8601 text
\* never makes the request fail on its timestamp, a timestamp that names no
\* instant is answered 400, and a message created without a timestamp shows
\* the server's time.
C20_TimestampNormalized ==
    res.op = "POST"
    => /\ (res.req.timestamp.k = "number" \/ NewDate(res.req.timestamp) # Invalid)
            => res.err # "timestamp"
       /\ (res.req.timestamp.k = "string" /\ NewDate(res.req.timestamp) = Invalid)
            => res.status = 400
       /\ (Created(res) /\ Missing(res.req.timestamp))
            => NewDate(View(Last(messages)).timestamp) = now

\* C21: in part_007, a POST /messages whose inline image is longer than the
\* 50000000 characters the handler allows is answered with a validation
\* error, the store being reachable.
C21_OversizedRejected ==
    (/\ variant = "p007"
     /\ res.op = "POST"
     /\ res.err # "store"
     /\ Length(res.req.image) > 50000000)
    => (res.status = 400 /\ res.err = "validation")

\* C22: a request of the remote video intake reaches the upload only with a
\* link that passed the URL check, a message is stored for it only by the
\* upload's success, and a step that fails answers 400 or 500 and leaves
\* nothing of the request waiting.
C22_IntakeStepOrder ==
    [][/\ \A i \in 1..Len(intake') :
             intake'[i].pc = "upload" => youtubeRegex(intake'[i].req.youtubeUrl)
       /\ (res'.op = "INTAKE" /\ Len(messages') > Len(messages))
            => (Created(res') /\ \E i \in 1..Len(intake) : intake[i].pc = "upload")
       /\ (IntakeFailed(res') /\ res' # res)
            => (res'.status \in {400, 500} /\ Len(intake') < Len(intake))]_vars

\* C25: the username and the text of every stored message have no blank at
\* either end.
C25_StoredTrimmed ==
    \A i \in 1..Len(messages) :
       /\ messages[i].username = Trim(messages[i].username)
       /\ messages[i].text = Trim(messages[i].text)

C27_IntakeAnswered ==
    (Len(intake) > 0) ~> (res.op = "INTAKE" /\ res.status \in {200, 400, 500})

\* C23: in server.js with its messages in memory, whenever a request of the
\* remote video intake is waiting for its download or its upload, GET
\* /messages, DELETE /messages/clear and POST /messages can each be handled
\* to completion, and doing so leaves the waiting request as it is.
C23_OthersServed ==
    (variant = "mem" /\ Len(intake) > 0)
    => /\ ENABLED (GetMessagesMem /\ res'.status = 200 /\ res'.body = messages
                     /\ intake' = intake)
       /\ ENABLED (ClearMem /\ res'.status = 200 /\ messages' = <<>>
                     /\ intake' = intake)
       /\ ENABLED (PostMessagesMem /\ res'.status = 400 /\ intake' = intake)
       /\ (Len(messages) < MaxStore
             => ENABLED (PostMessagesMem /\ Created(res') /\ intake' = intake
                           /\ Len(messages') = Len(messages) + 1))

\* A message was posted while a request of the intake was uploading.
C23_Witness ==
    /\ variant = "mem"
    /\ Len(intake) > 0
    /\ intake[1].pc = "upload"
    /\ res.op = "POST"
    /\ Created(res)
    /\ Len(messages) > 0

\* C29: in server.js with its messages in memory, every accepted POST
\* /messages and every intake whose upload succeeds appends exactly one
\* message and removes none, a clear empties the store and leaves the
\* requests of the intake in flight, and no other step changes the store; so
\* K posts and J intakes with no clear in between leave K + J messages.
C29_NoneLostNoneDuplicated ==
    [][variant = "mem" =>
         /\ (res'.op = "POST" /\ Created(res') /\ res' # res)
              => (messages' = Append(messages, MessageMem(res'.req, now))
                    /\ intake' = intake)
         /\ (res'.op = "INTAKE" /\ Created(res') /\ Len(intake') < Len(intake))
              => (/\ messages' = Append(messages, IntakeMessageMem(res'.req, now))
                  /\ Len(intake') = Len(intake) - 1)
         /\ (res'.op = "CLEAR" /\ (res' # res \/ messages' # messages))
              => (messages' = <<>> /\ intake' = intake)
         /\ (messages' # messages)
              => \/ res'.op = "CLEAR"
                 \/ (res'.op \in {"POST", "INTAKE"} /\ Created(res')
                       /\ Len(messages') = Len(messages) + 1
                       /\ SubSeq(messages', 1, Len(messages)) = messages)]_vars

\* One post and one intake, interleaved: the store holds the posted message
\* and, after it, the message of the intake whose upload has just succeeded.
C29_Witness ==
    /\ variant = "mem"
    /\ Len(messages) = 2
    /\ messages[1].youtubeUrl = NoUrl
    /\ messages[2].youtubeUrl # NoUrl
    /\ res.op = "INTAKE"
    /\ Created(res)
    /\ intake = <<>>

\* C24: when the store reports an error to GET /messages, POST /messages or
\* DELETE /messages/clear, the answer is 500 with no message in it, and the
\* store is left as it was.
C24_StoreErrorSurfaces ==
    [][(/\ res'.op \in {"GET", "POST", "CLEAR"}
        /\ res'.err \in {"store", "limit", "duplicate", "too_long"}
        /\ res' # res)
       => (res'.status = 500 /\ res'.body = <<>> /\ messages' = messages)]_vars

\* The store of part_003 held a message and reported an error to a GET.
C24_Witness ==
    /\ variant = "p003"
    /\ res.op = "GET"
    /\ res.err = "store"
    /\ res.status = 500
    /\ Len(messages) > 0

LastN(s, n) ==
    [i \in 1..Max(Min(n, Len(s)), 0) |-> s[Len(s) - Max(Min(n, Len(s)), 0) + i]]

\* The limit of a GET: 50 when the parameter is absent, zero or no number.
LimitOrFifty(q) == IF q.k = "number" /\ q.n # 0 THEN q.n ELSE 50

\* C28: part_001 never holds more than 500 messages; an accepted POST leaves
\* the last 500 of the old messages followed by the new one, in that order;
\* and GET /messages returns the last min(limit, size) stored messages in
\* their order, the limit being 50 when the parameter is absent, zero or no
\* number.
C28_LastFiveHundred ==
    [][variant = "p001" =>
         /\ Len(messages') <= 500
         /\ (uuidCtr' # uuidCtr)
              => (/\ res'.op = "POST"
                  /\ Created(res')
                  /\ messages' = LastN(Append(messages, res'.body[1]), 500))
         /\ (res'.op = "POST" /\ res' # res /\ ~InvalidP001(res'.req))
              => (Created(res') /\ uuidCtr' # uuidCtr)
         /\ (res'.op = "GET")
              => (/\ res'.status = 200
                  /\ res'.body = LastN(messages', LimitOrFifty(res'.query)))]_vars

\* A message was posted to the full array and a GET without limit followed:
\* the array still holds 500 messages, the new one last, and the GET returned
\* 50 of them.
C28_Witness ==
    /\ variant = "p001"
    /\ Len(messages) = 500
    /\ messages[500].id = Uuid(1)
    /\ res.op = "GET"
    /\ res.query = Undefined
    /\ Len(res.body) = 50

====
